---------------------------- MODULE Spec2Model ----------------------------
(***************************************************************************)
(* Model of msticpy/sectools/auditdextract.py: the auditd line parser,     *)
(* the field decoder, the event assembler and the process tree builder.    *)
(*                                                                         *)
(* Text is modelled at character level: a Python str is a sequence of      *)
(* one-character strings, so that split, strip, the two header regular     *)
(* expressions, hex decoding and int() are computed as the code computes   *)
(* them.  A Python dict is a sequence of [k, v] entries in insertion       *)
(* order.  A raised exception is an explicit outcome (raised |-> TRUE in   *)
(* an operator's result, pc = "raised" in a behaviour).                    *)
(***************************************************************************)
EXTENDS Integers, Sequences, FiniteSets, TLC

(***************************************************************************)
(* Python values held in the dictionaries: None, str and int.  An int is   *)
(* kept as its canonical decimal text (Python ints are unbounded; the      *)
(* sentinel 4294967295 does not fit a 32 bit machine integer).             *)
(***************************************************************************)
PyNone == [t |-> "none", s |-> <<>>]

PyStr(s) == [t |-> "str", s |-> s]

PyInt(s) == [t |-> "int", s |-> s]

\* Python truthiness of None / str: "if not value"
Falsy(v) == v.t = "none" \/ (v.t = "str" /\ v.s = <<>>)

(***************************************************************************)
(* dict operations (insertion ordered)                                     *)
(***************************************************************************)
Has(d, k) == \E i \in 1..Len(d) : d[i].k = k

Get(d, k, default) ==
   IF Has(d, k) THEN d[CHOOSE i \in 1..Len(d) : d[i].k = k].v ELSE default

Put(d, k, v) ==
   IF Has(d, k)
   THEN [i \in 1..Len(d) |-> IF d[i].k = k THEN [k |-> k, v |-> v] ELSE d[i]]
   ELSE Append(d, [k |-> k, v |-> v])

RECURSIVE Update(_, _)
Update(d, other) ==
   IF other = <<>> THEN d
   ELSE Update(Put(d, other[1].k, other[1].v), Tail(other))

Keys(d) == [i \in 1..Len(d) |-> d[i].k]

(***************************************************************************)
(* str operations                                                          *)
(***************************************************************************)
Ascii ==
   <<
      " ", "!", "\"", "#", "$", "%", "&", "'", "(", ")", "*", "+", ",", "-", ".", "/",
      "0", "1", "2", "3", "4", "5", "6", "7", "8", "9", ":", ";", "<", "=", ">", "?",
      "@", "A", "B", "C", "D", "E", "F", "G", "H", "I", "J", "K", "L", "M", "N", "O",
      "P", "Q", "R", "S", "T", "U", "V", "W", "X", "Y", "Z", "[", "\\", "]", "^", "_",
      "\\x96", "a", "b", "c", "d", "e", "f", "g", "h", "i", "j", "k", "l", "m", "n", "o",
      "p", "q", "r", "s", "t", "u", "v", "w", "x", "y", "z", "{", "|", "}", "~"
   >>

\* code point of a printable ASCII character (the grave accent, which a TLA+ string
\* cannot hold, is written "\\x96")
Ord(c) == 31 + (CHOOSE i \in 1..Len(Ascii) : Ascii[i] = c)

\* the character of a byte below 0x80; control characters keep a name of their own
Chr(b) == IF b \in 32..126 THEN Ascii[b - 31] ELSE "\\x" \o ToString(b)

WhiteSpace == {" ", "\t", "\n", "\r", "\f"}

Digits == <<"0", "1", "2", "3", "4", "5", "6", "7", "8", "9">>

IsDigit(c) == \E i \in 1..10 : Digits[i] = c

DigitVal(c) == (CHOOSE i \in 1..10 : Digits[i] = c) - 1

\* s[i..] starts with p
PrefixAt(s, p, i) ==
   /\ i >= 1
   /\ i + Len(p) - 1 <= Len(s)
   /\ \A k \in 1..Len(p) : s[i + k - 1] = p[k]

\* str.startswith
StartsWith(s, p) == PrefixAt(s, p, 1)

\* str.find, 1-based, 0 when absent
Find(s, p) ==
   IF \E i \in 1..Len(s) : PrefixAt(s, p, i)
   THEN CHOOSE i \in 1..Len(s) :
           PrefixAt(s, p, i) /\ \A j \in 1..(i - 1) : ~PrefixAt(s, p, j)
   ELSE 0

\* str.split(sep)
RECURSIVE Split(_, _)
Split(s, sep) ==
   LET i == Find(s, sep)
   IN  IF i = 0 THEN <<s>>
       ELSE <<SubSeq(s, 1, i - 1)>> \o Split(SubSeq(s, i + Len(sep), Len(s)), sep)

\* str.split(sep, maxsplit=1)
SplitMax1(s, sep) ==
   LET i == Find(s, sep)
   IN  IF i = 0 THEN <<s>>
       ELSE <<SubSeq(s, 1, i - 1), SubSeq(s, i + Len(sep), Len(s))>>

\* str.rstrip()
RECURSIVE RStrip(_)
RStrip(s) ==
   IF s # <<>> /\ s[Len(s)] \in WhiteSpace THEN RStrip(SubSeq(s, 1, Len(s) - 1)) ELSE s

\* str.strip() on both ends
RECURSIVE LStrip(_)
LStrip(s) == IF s # <<>> /\ s[1] \in WhiteSpace THEN LStrip(Tail(s)) ELSE s

\* str.strip('"')
RECURSIVE StripQuotes(_)
StripQuotes(s) ==
   IF s # <<>> /\ s[1] = "\"" THEN StripQuotes(Tail(s))
   ELSE IF s # <<>> /\ s[Len(s)] = "\"" THEN StripQuotes(SubSeq(s, 1, Len(s) - 1))
   ELSE s

\* " ".join(strs)
RECURSIVE Join(_)
Join(strs) ==
   IF strs = <<>> THEN <<>>
   ELSE IF Len(strs) = 1 THEN strs[1]
   ELSE strs[1] \o <<" ">> \o Join(Tail(strs))

\* lexicographic order of str (code point order)
RECURSIVE StrLess(_, _)
StrLess(a, b) ==
   IF b = <<>> THEN FALSE
   ELSE IF a = <<>> THEN TRUE
   ELSE IF a[1] = b[1] THEN StrLess(Tail(a), Tail(b))
   ELSE Ord(a[1]) < Ord(b[1])

(***************************************************************************)
(* int(str): optional surrounding white space, optional sign, decimal      *)
(* digits.  The result is the canonical text of the number.  (Python also  *)
(* accepts single underscores between digits; no input here has one.)      *)
(***************************************************************************)
RECURSIVE DropZeros(_)
DropZeros(ds) == IF Len(ds) > 1 /\ ds[1] = "0" THEN DropZeros(Tail(ds)) ELSE ds

ParseInt(str) ==
   LET body   == RStrip(LStrip(str))
       signed == body # <<>> /\ body[1] \in {"+", "-"}
       ds     == IF signed THEN Tail(body) ELSE body
       valid  == ds # <<>> /\ \A i \in 1..Len(ds) : IsDigit(ds[i])
       mag    == DropZeros(ds)
   IN  IF ~valid THEN [raised |-> TRUE, val |-> <<>>]
       ELSE [raised |-> FALSE,
             val |-> IF signed /\ body[1] = "-" /\ mag # <<"0">> THEN <<"-">> \o mag ELSE mag]

\* the number of a (small) canonical int text; negative numbers give 0 range steps
RECURSIVE NatOf(_)
NatOf(ds) == IF ds = <<>> THEN 0 ELSE 10 * NatOf(SubSeq(ds, 1, Len(ds) - 1)) + DigitVal(ds[Len(ds)])

\* len(range(0, args))
RangeLen(txt) == IF txt[1] = "-" THEN 0 ELSE NatOf(txt)

\* str(n) of a natural number
RECURSIVE TextOf(_)
TextOf(n) == IF n < 10 THEN <<Digits[n + 1]>> ELSE TextOf(n \div 10) \o <<Digits[(n % 10) + 1]>>

(***************************************************************************)
(* codecs.decode(bytes(s, "utf-8"), "hex").decode("utf-8")                 *)
(* ValueError on an odd number of digits, a non-hex digit, or bytes that   *)
(* are not UTF-8.  Only single-byte (ASCII) code points are modelled: a    *)
(* byte of 0x80 and above is taken as an invalid sequence.                 *)
(***************************************************************************)
HexDigits == <<"0", "1", "2", "3", "4", "5", "6", "7", "8", "9", "a", "b", "c", "d", "e", "f">>

UpperHex == <<"A", "B", "C", "D", "E", "F">>

IsHex(c) == (\E i \in 1..16 : HexDigits[i] = c) \/ (\E i \in 1..6 : UpperHex[i] = c)

HexVal(c) ==
   IF \E i \in 1..16 : HexDigits[i] = c
   THEN (CHOOSE i \in 1..16 : HexDigits[i] = c) - 1
   ELSE (CHOOSE i \in 1..6 : UpperHex[i] = c) + 9

RECURSIVE HexBytes(_)
HexBytes(s) == IF s = <<>> THEN <<>> ELSE <<16 * HexVal(s[1]) + HexVal(s[2])>> \o HexBytes(SubSeq(s, 3, Len(s)))

HexDecode(s) ==
   IF Len(s) % 2 = 1 \/ \E i \in 1..Len(s) : ~IsHex(s[i])
   THEN [raised |-> TRUE, val |-> <<>>]
   ELSE LET bytes == HexBytes(s)
        IN  IF \E i \in 1..Len(bytes) : bytes[i] >= 128
            THEN [raised |-> TRUE, val |-> <<>>]
            ELSE [raised |-> FALSE, val |-> [i \in 1..Len(bytes) |-> Chr(bytes[i])]]

(***************************************************************************)
(* Constants of the module: _ENCODED_PARAMS, _USER_START, _FIELD_DEFS      *)
(***************************************************************************)
\* _ENCODED_PARAMS.get(rec_key, None); the empty set stands for None (both are falsy)
EncodedParams(rec_key) ==
   IF rec_key = <<"E","X","E","C","V","E">> THEN {<<"a","0">>, <<"a","1">>, <<"a","2">>, <<"a","3">>, <<"a","r","c","h">>}
   ELSE IF rec_key = <<"P","R","O","C","T","I","T","L","E">> THEN {<<"p","r","o","c","t","i","t","l","e">>}
   ELSE IF rec_key = <<"U","S","E","R","_","C","M","D">> THEN {<<"c","m","d">>}
   ELSE {}

UserStart ==
   << <<<<"p","i","d">>, "int">>, <<<<"u","i","d">>, "int">>, <<<<"a","u","i","d">>, "int">>, <<<<"s","e","s">>, "int">>,
      <<<<"m","s","g">>, "">>, <<<<"a","c","c","t">>, "">>, <<<<"e","x","e">>, "">>, <<<<"h","o","s","t","n","a","m","e">>, "">>,
      <<<<"a","d","d","r">>, "">>, <<<<"t","e","r","m","i","n","a","l">>, "">>, <<<<"r","e","s">>, "">> >>

UserStartTypes == {<<"_","U","S","E","R","_","S","T","A","R","T">>, <<"U","S","E","R","_","E","N","D">>, <<"C","R","E","D","_","D","I","S","P">>, <<"U","S","E","R","_","A","C","C","T">>, <<"C","R","E","D","_","A","C","Q">>}

\* the keys of _FIELD_DEFS
KnownTypes ==
   {<<"S","Y","S","C","A","L","L">>, <<"C","W","D">>, <<"P","R","O","C","T","I","T","L","E">>, <<"L","O","G","I","N">>, <<"E","X","E","C","V","E">>, <<"U","S","E","R","_","C","M","D">>} \cup UserStartTypes

\* _FIELD_DEFS[mssg_type].items(): <<fieldname, conv>> in declaration order, conv "" for None
FieldDefs(mssg_type) ==
   IF mssg_type = <<"S","Y","S","C","A","L","L">> THEN
      << <<<<"s","u","c","c","e","s","s">>, "">>, <<<<"p","p","i","d">>, "int">>, <<<<"p","i","d">>, "int">>, <<<<"a","u","i","d">>, "int">>,
         <<<<"u","i","d">>, "int">>, <<<<"g","i","d">>, "int">>, <<<<"e","u","i","d">>, "int">>, <<<<"e","g","i","d">>, "int">>,
         <<<<"s","e","s">>, "int">>, <<<<"e","x","e">>, "">>, <<<<"c","o","m">>, "">> >>
   ELSE IF mssg_type = <<"C","W","D">> THEN << <<<<"c","w","d">>, "">> >>
   ELSE IF mssg_type = <<"P","R","O","C","T","I","T","L","E">> THEN << <<<<"p","r","o","c","t","i","t","l","e">>, "">> >>
   ELSE IF mssg_type = <<"L","O","G","I","N">> THEN
      << <<<<"p","i","d">>, "int">>, <<<<"u","i","d">>, "int">>, <<<<"t","t","y">>, "">>, <<<<"o","l","d","-","s","e","s">>, "int">>,
         <<<<"s","e","s">>, "int">>, <<<<"r","e","s">>, "">> >>
   ELSE IF mssg_type = <<"E","X","E","C","V","E">> THEN
      << <<<<"a","r","g","c">>, "int">>, <<<<"a","0">>, "">>, <<<<"a","1">>, "">>, <<<<"a","2">>, "">> >>
   ELSE IF mssg_type = <<"U","S","E","R","_","C","M","D">> THEN
      << <<<<"p","i","d">>, "int">>, <<<<"u","i","d">>, "int">>, <<<<"a","u","i","d">>, "int">>, <<<<"s","e","s">>, "int">>,
         <<<<"m","s","g">>, "">>, <<<<"c","m","d">>, "">>, <<<<"t","e","r","m","i","n","a","l">>, "">>, <<<<"r","e","s">>, "">> >>
   ELSE IF mssg_type \in UserStartTypes THEN UserStart
   ELSE <<>>

\* the unsigned 32 bit "unset" id
Sentinel == <<"4","2","9","4","9","6","7","2","9","5">>

(***************************************************************************)
(* unpack_auditd: a list of {type: [item, ...]} records to                 *)
(* {type: {key: value}}.  A record of the list is one <<type, items>> pair *)
(* (the parser yields one-key dicts).                                      *)
(***************************************************************************)
\* one "k=v" item of a record of type rec_key: the (key, value) it stores
UnpackItem(rec_key, rec_item) ==
   LET rec_split == SplitMax1(rec_item, <<"=">>)
       encoded_fields_map == EncodedParams(rec_key)
   IN  IF Len(rec_split) = 1 THEN [k |-> rec_split[1], v |-> PyNone]
       ELSE IF \/ encoded_fields_map = {}
               \/ StartsWith(rec_split[2], <<"\"">>)
               \/ rec_split[1] \notin encoded_fields_map
       THEN [k |-> rec_split[1], v |-> PyStr(StripQuotes(rec_split[2]))]
       ELSE LET dec == HexDecode(rec_split[2])
            IN  [k |-> rec_split[1],
                 v |-> IF dec.raised THEN PyStr(rec_split[2]) ELSE PyStr(dec.val)]

RECURSIVE UnpackRecord(_, _, _)
UnpackRecord(rec_key, rec_val, rec_dict) ==
   IF rec_val = <<>> THEN rec_dict
   ELSE LET kv == UnpackItem(rec_key, rec_val[1])
        IN  UnpackRecord(rec_key, Tail(rec_val), Put(rec_dict, kv.k, kv.v))

RECURSIVE UnpackInto(_, _)
UnpackInto(audit_str, event_dict) ==
   IF audit_str = <<>> THEN event_dict
   ELSE UnpackInto(Tail(audit_str),
                   Put(event_dict, audit_str[1][1],
                       UnpackRecord(audit_str[1][1], audit_str[1][2], <<>>)))

unpack_auditd(audit_str) == UnpackInto(audit_str, <<>>)

(***************************************************************************)
(* _extract_mssg_value: the schema fields of one message type into the     *)
(* event dictionary.  A falsy value RETURNS from the function (line 228);  *)
(* int() of a non-number raises ValueError (line 231).                     *)
(***************************************************************************)
RECURSIVE ExtractFields(_, _, _, _)
ExtractFields(defs, mssg_type, rec_dict, event_dict) ==
   IF defs = <<>> THEN [raised |-> FALSE, ev |-> event_dict]
   ELSE
      LET fieldname == defs[1][1]
          conv      == defs[1][2]
          value     == Get(rec_dict, fieldname, PyNone)
          parsed    == ParseInt(value.s)
          conved    == IF conv = "int"
                       THEN (IF parsed.val = Sentinel THEN PyInt(<<"-","1">>) ELSE PyInt(parsed.val))
                       ELSE value
          key       == IF Has(event_dict, fieldname)
                       THEN fieldname \o <<"_">> \o mssg_type
                       ELSE fieldname
      IN  IF Falsy(value) THEN [raised |-> FALSE, ev |-> event_dict]
          ELSE IF conv = "int" /\ parsed.raised THEN [raised |-> TRUE, ev |-> event_dict]
          ELSE ExtractFields(Tail(defs), mssg_type, rec_dict, Put(event_dict, key, conved))

extract_mssg_value(mssg_type, message_dict, event_dict) ==
   ExtractFields(FieldDefs(mssg_type), mssg_type, Get(message_dict, mssg_type, <<>>), event_dict)

(***************************************************************************)
(* _extract_event                                                          *)
(***************************************************************************)
\* [proc_create_dict.get(f"a{arg_idx}", "") for arg_idx in range(0, args)]
ArgStrs(proc_create_dict, args) ==
   [i \in 1..args |-> Get(proc_create_dict, <<"a">> \o TextOf(i - 1), PyStr(<<>>)).s]

\* lines 184-190: the derived cmdline
WithCmdline(proc_create_dict) ==
   LET args == RangeLen(Get(proc_create_dict, <<"a","r","g","c">>, PyInt(<<"1">>)).s)
   IN  Put(proc_create_dict, <<"c","m","d","l","i","n","e">>, PyStr(Join(ArgStrs(proc_create_dict, args))))

CompositeOrder == <<<<"S","Y","S","C","A","L","L">>, <<"C","W","D">>, <<"E","X","E","C","V","E">>, <<"P","R","O","C","T","I","T","L","E">>>>

RECURSIVE ExtractComposite(_, _, _)
ExtractComposite(types, message_dict, proc_create_dict) ==
   IF types = <<>> THEN [raised |-> FALSE, ev |-> proc_create_dict]
   ELSE IF ~Has(message_dict, types[1]) \/ types[1] \notin KnownTypes
   THEN ExtractComposite(Tail(types), message_dict, proc_create_dict)
   ELSE LET r == extract_mssg_value(types[1], message_dict, proc_create_dict)
        IN  IF r.raised THEN r
            ELSE ExtractComposite(Tail(types), message_dict,
                                  IF types[1] = <<"E","X","E","C","V","E">> THEN WithCmdline(r.ev) ELSE r.ev)

RECURSIVE ExtractGeneral(_, _, _)
ExtractGeneral(types, message_dict, event_dict) ==
   IF types = <<>> THEN [raised |-> FALSE, ev |-> event_dict]
   ELSE IF types[1] \in KnownTypes
   THEN LET r == extract_mssg_value(types[1], message_dict, event_dict)
        IN  IF r.raised THEN r ELSE ExtractGeneral(Tail(types), message_dict, r.ev)
   ELSE ExtractGeneral(Tail(types), message_dict,
                       Update(event_dict, Get(message_dict, types[1], <<>>)))

IsComposite(message_dict) == Has(message_dict, <<"S","Y","S","C","A","L","L">>) /\ Has(message_dict, <<"E","X","E","C","V","E">>)

\* [raised, type, ev]; list(message_dict.keys())[0] raises IndexError on an empty dict
extract_event(message_dict) ==
   IF IsComposite(message_dict)
   THEN LET r == ExtractComposite(CompositeOrder, message_dict, <<>>)
        IN  [raised |-> r.raised, type |-> <<"S","Y","S","C","A","L","L","_","E","X","E","C","V","E">>, ev |-> r.ev]
   ELSE LET r == ExtractGeneral(Keys(message_dict), message_dict, <<>>)
        IN  IF r.raised \/ message_dict = <<>>
            THEN [raised |-> TRUE, type |-> <<>>, ev |-> r.ev]
            ELSE [raised |-> FALSE, type |-> message_dict[1].k, ev |-> r.ev]

(***************************************************************************)
(* _parse_audit_message and _extract_timestamp                             *)
(***************************************************************************)
\* the maximal run of characters not in stop, from position i
RECURSIVE RunFrom(_, _, _)
RunFrom(s, i, stop) ==
   IF i > Len(s) \/ s[i] \in stop THEN <<>> ELSE <<s[i]>> \o RunFrom(s, i + 1, stop)

\* re.match(r"type=([^\s]+)", audit_headers): [matched, group1]
MatchType(audit_headers) ==
   LET run == RunFrom(audit_headers, 6, WhiteSpace)
   IN  [matched |-> StartsWith(audit_headers, <<"t","y","p","e","=">>) /\ run # <<>>, group1 |-> run]

\* whether msg=audit\(([^\)]+)\) matches at position i
MsgAt(s, i) ==
   LET run == RunFrom(s, i + 10, {")"})
   IN  PrefixAt(s, <<"m","s","g","=","a","u","d","i","t","(">>, i) /\ run # <<>> /\ i + 10 + Len(run) <= Len(s)

\* re.match(r".*msg=audit\(([^\)]+)\)", audit_headers): the greedy .* takes the
\* last place where the rest matches
MatchMsg(audit_headers) ==
   LET places == {i \in 1..Len(audit_headers) : MsgAt(audit_headers, i)}
       last   == CHOOSE i \in places : \A j \in places : j <= i
   IN  IF places = {} THEN [matched |-> FALSE, group1 |-> <<>>]
       ELSE [matched |-> TRUE, group1 |-> RunFrom(audit_headers, last + 10, {")"})]

\* [raised, msg]: msg is the list holding one <<type, items>> record, or the empty list;
\* audit_message[1] raises IndexError when the line has no ": "
parse_audit_message(audit_str) ==
   LET audit_message   == Split(RStrip(audit_str), <<":"," ">>)
       audit_headers   == audit_message[1]
       audit_hdr_match == MatchType(audit_headers)
   IN  IF ~audit_hdr_match.matched THEN [raised |-> FALSE, msg |-> <<>>]
       ELSE IF Len(audit_message) < 2 THEN [raised |-> TRUE, msg |-> <<>>]
       ELSE [raised |-> FALSE,
             msg |-> << <<audit_hdr_match.group1, Split(audit_message[2], <<" ">>)>> >>]

\* the part of the audit(...) payload that the function keeps
KeptOfPayload(payload) == Split(payload, <<":">>)[1]

extract_timestamp(audit_str) ==
   LET audit_message   == Split(RStrip(audit_str), <<":"," ">>)
       audit_headers   == audit_message[1]
       audit_hdr_match == MatchMsg(audit_headers)
   IN  IF audit_hdr_match.matched THEN KeptOfPayload(audit_hdr_match.group1) ELSE <<>>

(***************************************************************************)
(* State                                                                   *)
(***************************************************************************)
VARIABLES
   pc,            \* where the running function is
   \* read_from_file / extract_events_to_df
   wire,          \* the parts each raw line was written from (type, payload, body)
   lines,         \* the raw lines of the batch
   ln,            \* the next line to parse
   mssg_ids,      \* column mssg_id: _extract_timestamp of each parsed line
   parsed,        \* column AuditdMessage: _parse_audit_message of each parsed line
   groups,        \* the lines' records grouped by mssg_id
   gi,            \* the next group to assemble
   message_dict,  \* unpack_auditd of the group being assembled
   events,        \* the assembled (EventType, EventData) rows
   \* generate_process_tree
   audit_data,    \* the table of process rows
   branch_depth,
   processes,     \* the processes argument: 0 for None, else the index of the row passed
   procs,         \* the seed rows
   process_tree,  \* the accumulated rows
   pdf,           \* the current ancestor frame
   cdf,           \* the current descendant frame
   count,
   si,            \* position of the outer loop over procs["pid"]
   sj,            \* position of the inner loop over procs.iterrows()
   result         \* the returned table

pvars == <<wire, lines, ln, mssg_ids, parsed, groups, gi, message_dict, events>>

tvars == <<audit_data, branch_depth, processes, procs, process_tree, pdf, cdf, count, si, sj, result>>

vars == <<pc, pvars, tvars>>

(***************************************************************************)
(* Bounds                                                                  *)
(***************************************************************************)
\* lines in a batch
MaxBatch == 2

\* records in a group handed to the assembler
MaxGroup == 2

(***************************************************************************)
(* Raw lines: type=<TYPE> msg=audit(<payload>): <body>, and the malformed  *)
(* variants with the type token, the msg token or the ": " separator       *)
(* missing (an absent part is the empty text).                             *)
(***************************************************************************)
WireTypes == {<<"L","O","G","I","N">>, <<"P","A","T","H">>, <<>>}

WirePayloads == {<<"1",".","5",":","7">>, <<"1",".","5",":","8">>, <<"2",".","0",":","7">>, <<>>}

WireBodies == {<<"p","i","d","=","1"," ","u","i","d","=","2">>, <<"p","i","d","=","x">>}

Wires ==
   [type : WireTypes, payload : WirePayloads, sep : BOOLEAN, body : WireBodies]

WireLines == {w \in Wires : ~w.sep => w.body = <<"p","i","d","=","x">>}

Render(w) ==
   (IF w.type = <<>> THEN <<>> ELSE <<"t","y","p","e","=">> \o w.type \o <<" ">>)
   \o (IF w.payload = <<>> THEN <<>> ELSE <<"m","s","g","=","a","u","d","i","t","(">> \o w.payload \o <<")">>)
   \o (IF w.sep THEN <<":"," ">> \o w.body ELSE <<>>)

WellFormed(w) == w.type # <<>> /\ w.payload # <<>> /\ w.sep

Batches == UNION {[1..n -> WireLines] : n \in 1..MaxBatch}

(***************************************************************************)
(* Groups handed to the assembler: per message type, each token present    *)
(* or absent, well formed or not.                                          *)
(***************************************************************************)
Opt(tok) == {<<>>, <<tok>>}

SyscallRecs ==
   {<<<<"S","Y","S","C","A","L","L">>, pid \o ppid \o exe \o success>> :
       pid \in Opt(<<"p","i","d","=","1","0","0">>),
       ppid \in Opt(<<"p","p","i","d","=","1">>) \cup {<<<<"p","p","i","d","=","a","b","c">>>>},
       exe \in Opt(<<"e","x","e","=","2","F","6","2","6","9","6","E","2","F","6","C","7","3">>),
       success \in Opt(<<"s","u","c","c","e","s","s","=","y","e","s">>)}

ExecveArgs ==
   { <<>>,
     <<<<"a","0","=","6","C","7","3">>>>,
     <<<<"a","0","=","\"","/","b","i","n","/","s","h","\"">>, <<"a","1","=","\"","-","c","\"">>, <<"a","2","=","\"","l","s","\"">>>>,
     <<<<"a","0","=","\"","/","b","i","n","/","s","h","\"">>, <<"a","1","=","\"","-","c","\"">>, <<"a","2","=","\"","l","s","\"">>, <<"a","3","=","\"","x","\"">>>>,
     <<<<"a","0","=","\"","/","b","i","n","/","s","h","\"">>, <<"a","2","=","\"","l","s","\"">>>>,
     <<<<"a","0","=","\"","/","b","i","n","/","s","h","\"">>, <<"a","1","=">>, <<"a","2","=","\"","l","s","\"">>>> }

ExecveRecs ==
   {<<<<"E","X","E","C","V","E">>, argc \o args>> :
       argc \in Opt(<<"a","r","g","c","=","1">>) \cup {<<<<"a","r","g","c","=","3">>>>, <<<<"a","r","g","c","=","4">>>>},
       args \in ExecveArgs}

LoginRecs ==
   {<<<<"L","O","G","I","N">>, pid \o uid \o tty>> :
       pid \in Opt(<<"p","i","d","=","5">>),
       uid \in Opt(<<"u","i","d","=","5">>) \cup {<<<<"u","i","d","=","4","2","9","4","9","6","7","2","9","5">>>>},
       tty \in Opt(<<"t","t","y">>)}

UserCmdRecs ==
   {<<<<"U","S","E","R","_","C","M","D">>, pid \o uid \o cmd>> :
       pid \in Opt(<<"p","i","d","=","7">>),
       uid \in Opt(<<"u","i","d","=","6">>),
       cmd \in Opt(<<"c","m","d","=","6","C","7","3">>) \cup {<<<<"c","m","d","=","z","z">>>>}}

OtherRecs ==
   { <<<<"C","W","D">>, <<<<"c","w","d","=","\"","/","\"">>>>>>, <<<<"P","A","T","H">>, <<<<"u","i","d","=","9">>>>>>, <<<<"P","A","T","H">>, <<<<"n","a","m","e","=","x">>>>>> }

RecordPool == SyscallRecs \cup ExecveRecs \cup LoginRecs \cup UserCmdRecs \cup OtherRecs

GroupInputs == UNION {[1..n -> RecordPool] : n \in 1..MaxGroup}

(***************************************************************************)
(* read_from_file: the grouping by mssg_id (df_raw.groupby(["mssg_id"])    *)
(* .agg({"AuditdMessage": list})): one group per distinct id, in sorted    *)
(* key order, holding the records of its lines in line order.              *)
(***************************************************************************)
RECURSIVE SortedIds(_)
SortedIds(ids) ==
   IF ids = {} THEN <<>>
   ELSE LET m == CHOOSE a \in ids : \A b \in ids \ {a} : StrLess(a, b)
        IN  <<m>> \o SortedIds(ids \ {m})

RECURSIVE RecordsOf(_, _, _)
RecordsOf(id, ids, recs) ==
   IF ids = <<>> THEN <<>>
   ELSE (IF ids[1] = id THEN recs[1] ELSE <<>>) \o RecordsOf(id, Tail(ids), Tail(recs))

GroupById(ids, recs) ==
   LET keys == SortedIds({ids[i] : i \in 1..Len(ids)})
   IN  [g \in 1..Len(keys) |-> [id |-> keys[g], recs |-> RecordsOf(keys[g], ids, recs)]]

(***************************************************************************)
(* Actions of the extraction pipeline                                      *)
(***************************************************************************)
TreeIdle ==
   /\ audit_data = <<>> /\ branch_depth = 0 /\ processes = 0 /\ procs = <<>>
   /\ process_tree = <<>> /\ pdf = <<>> /\ cdf = <<>> /\ count = 0
   /\ si = 0 /\ sj = 0 /\ result = <<>>

\* read_from_file, lines 420-427: one line through both parsers
ParseLine ==
   /\ pc = "parse"
   /\ ln <= Len(lines)
   /\ LET id == extract_timestamp(lines[ln])
          r  == parse_audit_message(lines[ln])
      IN  IF r.raised
          THEN /\ pc' = "raised"
               /\ UNCHANGED <<ln, mssg_ids, parsed>>
          ELSE /\ mssg_ids' = Append(mssg_ids, id)
               /\ parsed' = Append(parsed, r.msg)
               /\ ln' = ln + 1
               /\ pc' = pc
   /\ UNCHANGED <<wire, lines, groups, gi, message_dict, events, tvars>>

\* read_from_file, lines 431-433
GroupLines ==
   /\ pc = "parse"
   /\ ln > Len(lines)
   /\ groups' = GroupById(mssg_ids, parsed)
   /\ pc' = "unpack"
   /\ UNCHANGED <<wire, lines, ln, mssg_ids, parsed, gi, message_dict, events, tvars>>

\* extract_events_to_df, line 306: unpack_auditd(x[input_column])
Unpack ==
   /\ pc = "unpack"
   /\ gi <= Len(groups)
   /\ message_dict' = unpack_auditd(groups[gi].recs)
   /\ pc' = "extract"
   /\ UNCHANGED <<wire, lines, ln, mssg_ids, parsed, groups, gi, events, tvars>>

\* extract_events_to_df, line 306: _extract_event(...) of the unpacked group
Extract ==
   /\ pc = "extract"
   /\ LET r == extract_event(message_dict)
      IN  IF r.raised
          THEN /\ pc' = "raised"
               /\ UNCHANGED <<gi, events>>
          ELSE /\ events' = Append(events, [id |-> groups[gi].id, type |-> r.type, ev |-> r.ev])
               /\ gi' = gi + 1
               /\ pc' = IF gi + 1 > Len(groups) THEN "done" ELSE "unpack"
   /\ UNCHANGED <<wire, lines, ln, mssg_ids, parsed, groups, message_dict, tvars>>

(***************************************************************************)
(* SpecBatch: a batch of raw lines through parse, group, unpack, assemble  *)
(***************************************************************************)
InitBatch ==
   /\ wire \in Batches
   /\ lines = [i \in 1..Len(wire) |-> Render(wire[i])]
   /\ ln = 1 /\ mssg_ids = <<>> /\ parsed = <<>>
   /\ groups = <<>> /\ gi = 1 /\ message_dict = <<>> /\ events = <<>>
   /\ pc = "parse"
   /\ TreeIdle

NextBatch == ParseLine \/ GroupLines \/ Unpack \/ Extract

SpecBatch == InitBatch /\ [][NextBatch]_vars

(***************************************************************************)
(* SpecAssemble: one grouped record through unpack_auditd and              *)
(* _extract_event                                                          *)
(***************************************************************************)
InitAssemble ==
   /\ wire = <<>> /\ lines = <<>> /\ ln = 1 /\ mssg_ids = <<>> /\ parsed = <<>>
   /\ \E g \in GroupInputs : groups = <<[id |-> <<"1",".","5">>, recs |-> g]>>
   /\ gi = 1 /\ message_dict = <<>> /\ events = <<>>
   /\ pc = "unpack"
   /\ TreeIdle

NextAssemble == Unpack \/ Extract

SpecAssemble == InitAssemble /\ [][NextAssemble]_vars

(***************************************************************************)
(* Properties of the line parser and of the event assembler                *)
(***************************************************************************)
\* the event assembled last, and the types of the group that the assembler decodes
LastEvent == events[Len(events)]

DecodedTypes(M) ==
   IF IsComposite(M)
   THEN {CompositeOrder[i] : i \in {j \in 1..Len(CompositeOrder) : Has(M, CompositeOrder[j])}}
   ELSE {M[i].k : i \in {j \in 1..Len(M) : M[j].k \in KnownTypes}}

\* what the schema asks a raw value to become
Converted(conv, value) ==
   IF conv = "int"
   THEN (IF ParseInt(value.s).val = Sentinel THEN PyInt(<<"-","1">>) ELSE PyInt(ParseInt(value.s).val))
   ELSE value

Convertible(conv, value) == ~Falsy(value) /\ (conv = "int" => ~ParseInt(value.s).raised)

EmittedAs(ev, mssg_type, fieldname, v) ==
   \E key \in {fieldname, fieldname \o <<"_">> \o mssg_type} : Has(ev, key) /\ Get(ev, key, PyNone) = v

DecodeScenario ==
   << <<<<"S","Y","S","C","A","L","L">>, <<<<"p","i","d","=","1","0","0">>, <<"p","p","i","d","=","1">>, <<"e","x","e","=","2","F","6","2","6","9","6","E","2","F","6","C","7","3">>>> >>,
      <<<<"E","X","E","C","V","E">>, <<<<"a","r","g","c","=","1">>, <<"a","0","=","6","C","7","3">>>> >> >>

C2_AbsentFieldOmitsOnlyItself ==
   pc = "done" =>
      /\ \A T \in DecodedTypes(message_dict) :
            \A i \in 1..Len(FieldDefs(T)) :
               LET fieldname == FieldDefs(T)[i][1]
                   conv      == FieldDefs(T)[i][2]
                   value     == Get(Get(message_dict, T, <<>>), fieldname, PyNone)
               IN  Convertible(conv, value)
                      => EmittedAs(LastEvent.ev, T, fieldname, Converted(conv, value))
      /\ groups[Len(groups)].recs = DecodeScenario =>
            /\ LastEvent.type = <<"S","Y","S","C","A","L","L","_","E","X","E","C","V","E">>
            /\ Get(LastEvent.ev, <<"p","i","d">>, PyNone) = PyInt(<<"1","0","0">>)
            /\ Get(LastEvent.ev, <<"p","p","i","d">>, PyNone) = PyInt(<<"1">>)
            /\ Get(LastEvent.ev, <<"e","x","e">>, PyNone) = PyStr(<<"/","b","i","n","/","l","s">>)
            /\ Get(LastEvent.ev, <<"c","m","d","l","i","n","e">>, PyNone) = PyStr(<<"l","s">>)

\* the argument count of an unpacked EXECVE record: argc, or 1 without it
ArgcOf(rec) ==
   LET v == Get(rec, <<"a","r","g","c">>, PyNone)
   IN  IF Falsy(v) \/ ParseInt(v.s).raised THEN 1 ELSE RangeLen(ParseInt(v.s).val)

ArgOf(rec, i) == Get(rec, <<"a">> \o TextOf(i), PyNone)

\* C3: on the composite path the event is a SYSCALL_EXECVE whose cmdline is the
\* decoded a0 .. a(argc-1) of the EXECVE record joined by single spaces (argc 1
\* when the record has none), for every argc >= 1.
C3_CmdlineJoinsAllArgs ==
   (pc = "done" /\ IsComposite(message_dict)) =>
      LET rec == Get(message_dict, <<"E","X","E","C","V","E">>, <<>>)
          n   == ArgcOf(rec)
      IN  (n >= 1 /\ \A i \in 0..(n - 1) : ~Falsy(ArgOf(rec, i))) =>
             /\ LastEvent.type = <<"S","Y","S","C","A","L","L","_","E","X","E","C","V","E">>
             /\ Get(LastEvent.ev, <<"c","m","d","l","i","n","e">>, PyNone)
                   = PyStr(Join([i \in 1..n |-> ArgOf(rec, i - 1).s]))

\* a decoded type of the group holds an int-typed field whose text is no integer
HasBadInt(M) ==
   \E T \in DecodedTypes(M) :
      \E i \in 1..Len(FieldDefs(T)) :
         LET value == Get(Get(M, T, <<>>), FieldDefs(T)[i][1], PyNone)
         IN  FieldDefs(T)[i][2] = "int" /\ ~Falsy(value) /\ ParseInt(value.s).raised

\* C4: an int-typed field whose raw value is no integer does not abort the assembly:
\* _extract_event still returns an event for the record.
C4_BadIntDoesNotAbort ==
   (pc \in {"extract", "raised", "done"} /\ HasBadInt(message_dict)) => pc # "raised"

\* a line whose assembly would stop on an integer conversion (the case of C4)
IntFailureLine(w) == w.type = <<"L","O","G","I","N">> /\ w.sep /\ w.body = <<"p","i","d","=","x">>

\* C5: a line whose header does not match yields an empty type / id instead of
\* raising, and a batch holding such a line runs through parse, unpack_auditd and
\* _extract_event without a raised failure, its well-formed records assembled.
C5_MalformedLineNeverRaises ==
   /\ \A i \in 1..Len(parsed) :
         /\ wire[i].type = <<>> => parsed[i] = <<>>
         /\ wire[i].payload = <<>> => mssg_ids[i] = <<>>
   /\ ( /\ \E i \in 1..Len(wire) : ~WellFormed(wire[i])
        /\ \A i \in 1..Len(wire) : ~IntFailureLine(wire[i]) )
      => /\ pc # "raised"
         /\ pc = "done" =>
               \A i \in 1..Len(wire) :
                  WellFormed(wire[i]) => \E e \in 1..Len(events) : events[e].id = mssg_ids[i]

\* C6: on the general path, schema types A then B both carrying a non-empty field x
\* give the bare x with A's value and x_B with B's value.
C6_FirstWriterKeepsBareName ==
   (pc = "done" /\ ~IsComposite(message_dict)) =>
      \A a, b \in 1..Len(message_dict) :
         (a = 1 /\ a < b /\ message_dict[a].k \in KnownTypes /\ message_dict[b].k \in KnownTypes) =>
            LET A == message_dict[a].k
                B == message_dict[b].k
            IN  \A i \in 1..Len(FieldDefs(A)), j \in 1..Len(FieldDefs(B)) :
                   LET x  == FieldDefs(A)[i][1]
                       va == Get(message_dict[a].v, x, PyNone)
                       vb == Get(message_dict[b].v, x, PyNone)
                   IN  ( /\ FieldDefs(B)[j][1] = x
                         /\ Convertible(FieldDefs(A)[i][2], va)
                         /\ Convertible(FieldDefs(B)[j][2], vb) )
                       => /\ Get(LastEvent.ev, x, PyNone) = Converted(FieldDefs(A)[i][2], va)
                          /\ Get(LastEvent.ev, x \o <<"_">> \o B, PyNone)
                                = Converted(FieldDefs(B)[j][2], vb)

(***************************************************************************)
(* generate_process_tree                                                   *)
(*                                                                         *)
(* A row of audit_data is [idx, pid, ppid, ts]: idx its index label, ts    *)
(* its TimeGenerated; NULL is the missing value (NaN) of pid and ppid.     *)
(* The other columns (exe, cmd, uid, cwd) take no part in the traversal    *)
(* and are left out.  A row of a traversal frame carries NodeRole and      *)
(* Level as well.                                                          *)
(***************************************************************************)
NULL == 0

\* DataFrame.head(): n = 5
HeadRows == 5

\* rows of a table, ids of processes, time stamps, branch depths explored
MaxRows == 3

MaxPid == 2

MaxTime == 2

MaxDepth == 2

\* rows of a table in SpecWalk
WalkRows == 2

\* the longest parent chain explored, and the default of branch_depth
ChainLen == 10

DefaultDepth == 4

Tagged(row, role, level) ==
   [idx |-> row.idx, pid |-> row.pid, ppid |-> row.ppid, ts |-> row.ts,
    NodeRole |-> role, Level |-> level]

TagAll(frame, role, level) == [i \in 1..Len(frame) |-> Tagged(frame[i], role, level)]

\* audit_data.loc[audit_data["pid"] == int(p)], tagged
RowsWithPid(data, p, role, level) ==
   LET Keep(row) == row.pid # NULL /\ row.pid = p
   IN  TagAll(SelectSeq(data, Keep), role, level)

\* audit_data.loc[audit_data["ppid"] == int(p)], tagged
RowsWithPpid(data, p, role, level) ==
   LET Keep(row) == row.ppid # NULL /\ row.ppid = p
   IN  TagAll(SelectSeq(data, Keep), role, level)

\* lines 541-546: the rows generated after proc whose ppid is proc's pid
ChildrenAfter(data, proc, role, level) ==
   LET Later(row) == row.ts > proc.ts
   IN  RowsWithPpid(SelectSeq(data, Later), proc.pid, role, level)

\* lines 513-519: the seed rows, tagged source / 0
FirstN(frame, n) == SubSeq(frame, 1, IF Len(frame) < n THEN Len(frame) ELSE n)

SeedRows(data, arg) ==
   LET NotNull(row) == row.pid # NULL
       chosen == IF arg = 0 THEN FirstN(SelectSeq(data, NotNull), HeadRows)
                 ELSE <<data[arg]>>
   IN  TagAll(chosen, "source", 0)

\* the value that ends a while loop: count = branch_depth + 1
ExitCountOffByOne(depth) == depth

ExitCount(depth) == depth + 1

\* lines 531-539: the for loop over the ppid column of the frame the while
\* iteration started with; [pdf, count, tree]
RECURSIVE AncestorPass(_, _, _, _, _, _)
AncestorPass(ppids, data, depth, frame, cnt, tree) ==
   IF ppids = <<>> THEN [pdf |-> frame, count |-> cnt, tree |-> tree]
   ELSE IF ppids[1] = NULL
   THEN AncestorPass(Tail(ppids), data, depth, frame, ExitCount(depth), tree)
   ELSE LET found == RowsWithPid(data, ppids[1], "parent", cnt + 1)
        IN  AncestorPass(Tail(ppids), data, depth, found, cnt + 1, tree \o found)

\* lines 553-558: the for loop over the pid column of the frame the while
\* iteration started with; int(NaN) raises ValueError; [raised, cdf, count, tree]
RECURSIVE DescendantPass(_, _, _, _, _)
DescendantPass(pids, data, frame, cnt, tree) ==
   IF pids = <<>> THEN [raised |-> FALSE, cdf |-> frame, count |-> cnt, tree |-> tree]
   ELSE IF pids[1] = NULL
   THEN [raised |-> TRUE, cdf |-> frame, count |-> cnt, tree |-> tree]
   ELSE LET found == RowsWithPpid(data, pids[1], "child", cnt + 1)
        IN  DescendantPass(Tail(pids), data, found, cnt + 1, tree \o found)

\* count after the iteration of the ancestor while loop that starts with frame and cnt
AncestorIteration(data, depth, frame, cnt, tree) ==
   IF frame = <<>>
   THEN [pdf |-> frame, count |-> ExitCount(depth), tree |-> tree]
   ELSE AncestorPass([i \in 1..Len(frame) |-> frame[i].ppid], data, depth, frame, cnt, tree)

\* the same of the descendant while loop
DescendantIteration(data, depth, frame, cnt, tree) ==
   IF frame = <<>>
   THEN [raised |-> FALSE, cdf |-> frame, count |-> ExitCount(depth), tree |-> tree]
   ELSE DescendantPass([i \in 1..Len(frame) |-> frame[i].pid], data, frame, cnt, tree)

\* lines 559-585: the traversal rows under their canonical names ...
Renamed(row) ==
   [idx |-> row.idx, TimeGenerated |-> row.ts, NewProcessId |-> row.pid,
    ProcessId |-> row.ppid, NodeRole |-> row.NodeRole, Level |-> row.Level]

\* ... and the seed rows appended after the renaming: their pid and ppid columns
\* are not among the selected ones, and the renamed columns are missing in them
Unrenamed(row) ==
   [idx |-> row.idx, TimeGenerated |-> row.ts, NewProcessId |-> NULL,
    ProcessId |-> NULL, NodeRole |-> row.NodeRole, Level |-> row.Level]

\* sort_values(by="TimeGenerated"); rows of equal time keep their order: row i
\* goes behind the rows of earlier time and the earlier rows of the same time
SortByTime(frame) ==
   LET n   == Len(frame)
       pos == [i \in 1..n |->
                 Cardinality({j \in 1..n :
                    \/ frame[j].TimeGenerated < frame[i].TimeGenerated
                    \/ (frame[j].TimeGenerated = frame[i].TimeGenerated /\ j < i)}) + 1]
   IN  [k \in 1..n |-> frame[CHOOSE i \in 1..n : pos[i] = k]]

\* two rows with the same values in every column (the index label is no column)
SameColumns(a, b) ==
   /\ a.TimeGenerated = b.TimeGenerated /\ a.NewProcessId = b.NewProcessId
   /\ a.ProcessId = b.ProcessId /\ a.NodeRole = b.NodeRole /\ a.Level = b.Level

\* drop_duplicates(): of equal rows the first is kept
DropDuplicates(frame) ==
   LET First(i) == \A j \in 1..(i - 1) : ~SameColumns(frame[j], frame[i])
       keep     == SelectSeq([i \in 1..Len(frame) |-> i], First)
   IN  [k \in 1..Len(keep) |-> frame[keep[k]]]

\* lines 559-589
FinalTable(tree, seeds) ==
   LET all == [i \in 1..Len(tree) |-> Renamed(tree[i])]
                 \o [i \in 1..Len(seeds) |-> Unrenamed(seeds[i])]
       NotNull(row) == row.NewProcessId # NULL
   IN  DropDuplicates(SelectSeq(SortByTime(all), NotNull))

PipelineIdle ==
   /\ wire = <<>> /\ lines = <<>> /\ ln = 1 /\ mssg_ids = <<>> /\ parsed = <<>>
   /\ groups = <<>> /\ gi = 1 /\ message_dict = <<>> /\ events = <<>>

\* lines 513-520
SelectSeeds ==
   /\ pc = "start"
   /\ procs' = SeedRows(audit_data, processes)
   /\ si' = 1
   /\ pc' = "seed"
   /\ UNCHANGED <<audit_data, branch_depth, processes, process_tree, pdf, cdf, count, sj, result, pvars>>

\* lines 521-526: the next seed pid; int(proc_pid) raises ValueError on NaN
SeedLookup ==
   /\ pc = "seed"
   /\ si <= Len(procs)
   /\ IF procs[si].pid = NULL
      THEN /\ pc' = "raised"
           /\ UNCHANGED <<pdf, process_tree, count>>
      ELSE /\ pdf' = RowsWithPid(audit_data, procs[si].pid, "parent", 1)
           /\ process_tree' = process_tree \o pdf'
           /\ count' = 1
           /\ pc' = "ancestors"
   /\ UNCHANGED <<audit_data, branch_depth, processes, procs, cdf, si, sj, result, pvars>>

\* lines 527-539: one iteration of the ancestor while loop
AncestorStep ==
   /\ pc = "ancestors"
   /\ count <= branch_depth
   /\ LET r == AncestorIteration(audit_data, branch_depth, pdf, count, process_tree)
      IN  /\ pdf' = r.pdf
          /\ count' = r.count
          /\ process_tree' = r.tree
   /\ UNCHANGED <<pc, audit_data, branch_depth, processes, procs, cdf, si, sj, result, pvars>>

\* line 527 false, line 540: the ancestor loop is left, the loop over the seeds starts
AncestorExit ==
   /\ pc = "ancestors"
   /\ count > branch_depth
   /\ sj' = 1
   /\ pc' = "children"
   /\ UNCHANGED <<audit_data, branch_depth, processes, procs, process_tree, pdf, cdf, count, si, result, pvars>>

\* lines 540-548: the direct children of the next seed; int(proc["pid"]) raises on NaN
ChildLookup ==
   /\ pc = "children"
   /\ sj <= Len(procs)
   /\ IF procs[sj].pid = NULL
      THEN /\ pc' = "raised"
           /\ UNCHANGED <<cdf, process_tree, count>>
      ELSE /\ cdf' = ChildrenAfter(audit_data, procs[sj], "child", 1)
           /\ process_tree' = process_tree \o cdf'
           /\ count' = 1
           /\ pc' = "descendants"
   /\ UNCHANGED <<audit_data, branch_depth, processes, procs, pdf, si, sj, result, pvars>>

\* lines 549-558: one iteration of the descendant while loop
DescendantStep ==
   /\ pc = "descendants"
   /\ count <= branch_depth
   /\ LET r == DescendantIteration(audit_data, branch_depth, cdf, count, process_tree)
      IN  /\ cdf' = r.cdf
          /\ count' = r.count
          /\ process_tree' = r.tree
          /\ pc' = IF r.raised THEN "raised" ELSE pc
   /\ UNCHANGED <<audit_data, branch_depth, processes, procs, pdf, si, sj, result, pvars>>

\* line 549 false: the descendant loop is left, on to the next row of procs
DescendantExit ==
   /\ pc = "descendants"
   /\ count > branch_depth
   /\ sj' = sj + 1
   /\ pc' = "children"
   /\ UNCHANGED <<audit_data, branch_depth, processes, procs, process_tree, pdf, cdf, count, si, result, pvars>>

\* line 540 exhausted: on to the next seed pid of line 521
NextSeed ==
   /\ pc = "children"
   /\ sj > Len(procs)
   /\ si' = si + 1
   /\ pc' = "seed"
   /\ UNCHANGED <<audit_data, branch_depth, processes, procs, process_tree, pdf, cdf, count, sj, result, pvars>>

\* lines 559-589; without any seed process_tree has no column to rename and the
\* selection of the canonical columns raises KeyError
Finalise ==
   /\ pc = "seed"
   /\ si > Len(procs)
   /\ IF procs = <<>>
      THEN /\ pc' = "raised"
           /\ UNCHANGED result
      ELSE /\ result' = FinalTable(process_tree, procs)
           /\ pc' = "done"
   /\ UNCHANGED <<audit_data, branch_depth, processes, procs, process_tree, pdf, cdf, count, si, sj, pvars>>

NextTree ==
   \/ SelectSeeds \/ SeedLookup \/ AncestorStep \/ AncestorExit \/ ChildLookup
   \/ DescendantStep \/ DescendantExit \/ NextSeed \/ Finalise

TreeStart ==
   /\ procs = <<>> /\ process_tree = <<>> /\ pdf = <<>> /\ cdf = <<>>
   /\ count = 0 /\ si = 0 /\ sj = 0 /\ result = <<>>
   /\ pc = "start"
   /\ PipelineIdle

(***************************************************************************)
(* SpecTree: every table of up to MaxRows rows over MaxPid process ids     *)
(* (cycles, shared pids and missing pids / ppids included), every depth    *)
(* up to MaxDepth, the seeds defaulted or one row passed                   *)
(***************************************************************************)
Tables ==
   UNION {[1..n -> [pid : 0..MaxPid, ppid : 0..MaxPid, ts : 1..MaxTime]] : n \in 0..MaxRows}

Indexed(table) ==
   [i \in 1..Len(table) |->
      [idx |-> i, pid |-> table[i].pid, ppid |-> table[i].ppid, ts |-> table[i].ts]]

InitTree ==
   /\ \E t \in Tables : audit_data = Indexed(t)
   /\ branch_depth \in 0..MaxDepth
   /\ processes \in 0..Len(audit_data)
   /\ TreeStart

SpecTree == InitTree /\ [][NextTree]_vars

(***************************************************************************)
(* SpecWalk: the traversal alone.  Every table of up to WalkRows rows in   *)
(* log order (the time of a row is its position), every depth up to        *)
(* MaxDepth.                                                               *)
(***************************************************************************)
WalkTables == UNION {[1..n -> [pid : 0..MaxPid, ppid : 0..MaxPid]] : n \in 0..WalkRows}

InLogOrder(table) ==
   [i \in 1..Len(table) |-> [idx |-> i, pid |-> table[i].pid, ppid |-> table[i].ppid, ts |-> i]]

InitWalk ==
   /\ \E t \in WalkTables : audit_data = InLogOrder(t)
   /\ branch_depth \in 0..MaxDepth
   /\ processes \in 0..Len(audit_data)
   /\ TreeStart

SpecWalk == InitWalk /\ [][NextTree]_vars

(***************************************************************************)
(* SpecChain: a linear parent chain, row i the child of row i - 1          *)
(***************************************************************************)
Chain(n) == [i \in 1..n |-> [idx |-> i, pid |-> i, ppid |-> i - 1, ts |-> i]]

InitChain ==
   /\ \E n \in 1..ChainLen : audit_data = Chain(n)
   /\ branch_depth \in 0..DefaultDepth
   /\ processes \in 0..Len(audit_data)
   /\ TreeStart

SpecChain == InitChain /\ [][NextTree]_vars

(***************************************************************************)
(* Properties of generate_process_tree                                     *)
(***************************************************************************)
\* some row has no pid, or there is no row at all: int(NaN) or the column
\* selection can raise
MissingPid ==
   audit_data = <<>> \/ \E i \in 1..Len(audit_data) : audit_data[i].pid = NULL

\* a process that is its own ancestor, one or two generations up
Cyclic ==
   \E i, j \in 1..Len(audit_data) :
      /\ audit_data[i].pid # NULL /\ audit_data[j].pid # NULL
      /\ audit_data[i].ppid = audit_data[j].pid
      /\ audit_data[j].ppid = audit_data[i].pid

SharedPid ==
   \E i, j \in 1..Len(audit_data) :
      i # j /\ audit_data[i].pid # NULL /\ audit_data[i].pid = audit_data[j].pid

\* iterations the running while loop has left before count exceeds branch_depth
LoopLeft == IF count > branch_depth THEN 0 ELSE branch_depth + 1 - count

\* steps one row of procs can take in the descendant walk, and one seed in all
ChildSpan == branch_depth + 3

SeedSpan(n) == n * ChildSpan + branch_depth + 4

\* an upper bound of the steps a run has left, by the place it is at
Rank ==
   LET n == Len(procs)
       m == Len(audit_data)
   IN  CASE pc = "start" -> (m + 1) * SeedSpan(m) + 2
         [] pc = "seed" -> (n + 1 - si) * SeedSpan(n) + 1
         [] pc = "ancestors" -> (n - si) * SeedSpan(n) + 1 + n * ChildSpan + 2 + LoopLeft
         [] pc = "children" -> (n - si) * SeedSpan(n) + 1 + (n + 1 - sj) * ChildSpan + 1
         [] pc = "descendants" -> (n - si) * SeedSpan(n) + 1 + (n - sj) * ChildSpan + 2 + LoopLeft
         [] OTHER -> 0

\* the while iteration that is about to run leaves count larger than it finds it
\* (or raises)
IterationAdvances ==
   /\ (pc = "ancestors" /\ count <= branch_depth) =>
         AncestorIteration(audit_data, branch_depth, pdf, count, process_tree).count > count
   /\ (pc = "descendants" /\ count <= branch_depth) =>
         LET r == DescendantIteration(audit_data, branch_depth, cdf, count, process_tree)
         IN  r.raised \/ r.count > count

\* C7: generate_process_tree terminates for every table and every depth D >= 0,
\* cyclic pid/ppid relations and shared pids included.  Every iteration of the two
\* while loops advances count, every step of the function lowers Rank, a natural
\* number, and the function raises only where a pid is missing: the ancestor loop
\* and the descendant loop of every seed are left, and the function returns, within
\* Rank steps.
C7_TreeTerminates ==
   /\ [](Rank >= 0 /\ IterationAdvances)
   /\ [](pc = "raised" => MissingPid)
   /\ [][Rank' < Rank]_vars

\* a finished run over a cyclic table with a shared pid in which both while loops
\* went round
C7_CyclicRunReturned ==
   /\ pc = "done"
   /\ Cyclic /\ SharedPid /\ ~MissingPid
   /\ branch_depth >= 2
   /\ \E i \in 1..Len(process_tree) :
         process_tree[i].NodeRole = "parent" /\ process_tree[i].Level >= 3
   /\ \E i \in 1..Len(process_tree) :
         process_tree[i].NodeRole = "child" /\ process_tree[i].Level >= 3

\* C8: in the returned table every parent row and every child row has Level <= D.
C8_LevelWithinDepth ==
   pc = "done" =>
      \A i \in 1..Len(result) :
         result[i].NodeRole \in {"parent", "child"} => result[i].Level <= branch_depth

\* C9: for a chain of 10 processes, the last one the only seed, and D = 4 the table
\* holds exactly the 4 nearest ancestors as parent rows of levels 1 to 4 in order of
\* distance, the seed at level 0, and no ancestor further away.
C9_ChainOfTenDepthFour ==
   (pc = "done" /\ Len(audit_data) = 10 /\ branch_depth = 4 /\ processes = 10) =>
      LET parents == {i \in 1..Len(result) : result[i].NodeRole = "parent"}
      IN  /\ Cardinality(parents) = 4
          /\ \A g \in 1..4 :
                \E i \in parents : result[i].idx = 10 - g /\ result[i].Level = g
          /\ \E i \in 1..Len(result) :
                result[i].idx = 10 /\ result[i].NodeRole = "source" /\ result[i].Level = 0
          /\ \A i \in 1..Len(result) : result[i].idx >= 6

\* C10: every seed is a row of the returned table with NodeRole "source", Level 0
\* and a process id.
C10_SeedsAreReturned ==
   pc = "done" =>
      \A s \in 1..Len(procs) :
         \E i \in 1..Len(result) :
            /\ result[i].idx = procs[s].idx
            /\ result[i].NodeRole = "source"
            /\ result[i].Level = 0
            /\ result[i].NewProcessId # NULL


\* the rows of generation g below a seed: the rows generated after the seed whose
\* ppid is the seed's pid, then the rows whose ppid is the pid of any row of the
\* generation before (positions in audit_data)
RECURSIVE Generation(_, _)
Generation(seed, g) ==
   IF g = 1
   THEN {i \in 1..Len(audit_data) :
           /\ audit_data[i].ts > seed.ts
           /\ audit_data[i].ppid # NULL /\ audit_data[i].ppid = seed.pid}
   ELSE {i \in 1..Len(audit_data) :
           /\ audit_data[i].ppid # NULL
           /\ \E j \in Generation(seed, g - 1) : audit_data[j].pid = audit_data[i].ppid}

\* C11: every row the descendant walk of a seed adds to the tree as a child row, the
\* direct children and every later generation alike, has a timestamp strictly greater
\* than the timestamp of that seed.
C11_ChildRowsAfterSeed ==
   [][\A i \in (Len(process_tree) + 1)..Len(process_tree') :
         process_tree'[i].NodeRole = "child" => process_tree'[i].ts > procs[sj].ts]_vars

\* C12: generation g + 1 of a seed is the set of rows whose ppid is the pid of any row
\* of generation g, all of them at Level g + 1: every descendant of a seed within
\* branch_depth generations that has a pid is a child row of the returned table with
\* its generation as Level (rows equal in every column are returned once).
C12_DescendantsByGeneration ==
   pc = "done" =>
      \A s \in 1..Len(procs) :
         \A g \in 1..branch_depth :
            \A i \in Generation(procs[s], g) :
               audit_data[i].pid # NULL =>
                  \E k \in 1..Len(result) :
                     /\ result[k].TimeGenerated = audit_data[i].ts
                     /\ result[k].NewProcessId = audit_data[i].pid
                     /\ result[k].ProcessId = audit_data[i].ppid
                     /\ result[k].NodeRole = "child"
                     /\ result[k].Level = g
=============================================================================
